---- MODULE Spec2Model ----
(***************************************************************************)
(* A model of brain_observatory.ipynb: the notebook's code cells, run in   *)
(* order against an AllenSDK BrainObservatoryCache.  The catalogue the SDK *)
(* serves (experiment containers, ophys experiments, cell specimens) is    *)
(* input data; each code cell is one action on the kernel namespace `ns'.  *)
(* Code cells 4, 5 and 6 only print catalogue listings (depths, stimuli,   *)
(* Cre lines) into names no later cell reads; they are left out.           *)
(*                                                                         *)
(* Units: p values are in hundredths (5 stands for 0.05), selectivity      *)
(* indices in tenths (5 stands for 0.5, 15 for 1.5).                       *)
(***************************************************************************)
EXTENDS Integers, Sequences, FiniteSets, TLC

\* ------------------------------------------------------------------ bounds
NumContainers == 2
NumExperiments == 2
NumCells == 2
TraceLen == 2
NumRois == 1

\* ------------------------------------------------------- program constants
\* visp_cells['p_dg'] < 0.05
P_SIG == 5
\* (sig_cells['dsi_dg'] > 0.5) & (sig_cells['dsi_dg'] < 1.5)
DSI_LO == 5
DSI_HI == 15
\* dg.peak.peak_dff_dg > 3
PEAK_DFF_MIN == 3
\* the experiment ids the notebook requests by literal
ROI_EXPERIMENT_ID == 510221121
DG_EXPERIMENT_ID == 512326618
RUNNING_EXPERIMENT_ID == 501940850

\* --------------------------------------------------------------- the data
Structures == {"VISp", "VISal"}
CreLines == {"Cux2-CreERT2", "Rbp4-Cre"}
SessionTypes == {"three_session_A", "three_session_B"}
STATIC_GRATINGS == "static_gratings"
DRIFTING_GRATINGS == "drifting_gratings"

\* The stimuli of a session type (allensdk.brain_observatory.stimulus_info).
StimuliOf(session_type) ==
  IF session_type = "three_session_A"
  THEN {DRIFTING_GRATINGS, "natural_movie_one", "natural_movie_three"}
  ELSE {STATIC_GRATINGS, "natural_scenes", "natural_movie_one"}

AllStimuli == UNION {StimuliOf(s) : s \in SessionTypes}

Range(s) == {s[i] : i \in 1..Len(s)}

Min(a, b) == IF a < b THEN a ELSE b

\* Values the metric columns take in the inputs: both sides of every threshold.
PValues == {4, 5}
DsiValues == {5, 10, 15}

\* Experiment container records, id = position.
ContainerTables(structs, cres) ==
  {[i \in 1..NumContainers |->
      [id |-> i, targeted_structure |-> f[i][1], cre_line |-> f[i][2]]] :
    f \in [1..NumContainers -> structs \X cres]}

\* Ophys experiment records; experiment ids are 101, 102, ...
ExperimentTables ==
  {[i \in 1..NumExperiments |->
      [id |-> 100 + i, experiment_container_id |-> f[i][1], session_type |-> f[i][2]]] :
    f \in [1..NumExperiments -> (1..NumContainers) \X SessionTypes]}

\* Cell specimen records; cell specimen ids are 201, 202, ...
SpecimenTables(ps, dsis) ==
  {[i \in 1..NumCells |->
      [cell_specimen_id |-> 200 + i, experiment_container_id |-> f[i][1],
       p_dg |-> f[i][2], dsi_dg |-> f[i][3]]] :
    f \in [1..NumCells -> (1..NumContainers) \X ps \X dsis]}

\* The cell specimen ids an NWB file lists: 301, 302, ... (possibly none).
RoiIdLists == {[i \in 1..n |-> 300 + i] : n \in 0..NumRois}

\* The rows of DriftingGratings(data_set).peak.
PeakTables ==
  {<<[ptest_dg |-> 4, peak_dff_dg |-> 4, osi_dg |-> 10, dsi_dg |-> d]>> : d \in {10, 15}}

\* ------------------------------------------------- the SDK's query methods
\* boc.get_experiment_containers(targeted_structures=..., cre_lines=...):
\* the containers whose structure and Cre line are among those asked for
\* (an argument left out filters nothing: pass the whole set).
get_experiment_containers(table, targeted_structures, cre_lines) ==
  SelectSeq(table, LAMBDA c : c.targeted_structure \in targeted_structures
                              /\ c.cre_line \in cre_lines)

\* boc.get_ophys_experiments(experiment_container_ids=..., stimuli=...):
\* the experiments of the given containers whose session shows one of the
\* stimuli (stimuli left out: pass AllStimuli).
get_ophys_experiments(table, experiment_container_ids, stimuli) ==
  SelectSeq(table, LAMBDA e : e.experiment_container_id \in Range(experiment_container_ids)
                              /\ StimuliOf(e.session_type) \cap stimuli # {})

\* boc.get_all_targeted_structures()
get_all_targeted_structures(table) == {c.targeted_structure : c \in Range(table)}

\* --------------------------------------------- the dataframe operations
\* [ ec['id'] for ec in visp_ecs ]
Ids(ecs) == [i \in 1..Len(ecs) |-> ecs[i].id]

\* frame[frame['experiment_container_id'].isin(ids)]
isin(frame, ids) ==
  SelectSeq(frame, LAMBDA r : r.experiment_container_id \in Range(ids))

\* row['p_dg'] < 0.05
SigMask(row) == row.p_dg < P_SIG

\* (row['dsi_dg'] > 0.5) & (row['dsi_dg'] <= 1.5): the upper bound let in
DsiMask_mutant(row) == row.dsi_dg > DSI_LO /\ row.dsi_dg <= DSI_HI

\* (row['dsi_dg'] > 0.5) & (row['dsi_dg'] < 1.5)
DsiMask(row) == row.dsi_dg > DSI_LO /\ row.dsi_dg < DSI_HI

\* the column taken without .unique(): repeats kept
unique_mutant(s) == s

\* Series.unique(): the distinct values in order of first appearance
RECURSIVE unique(_)
unique(s) ==
  IF s = <<>> THEN <<>>
  ELSE LET rest == unique(SubSeq(s, 1, Len(s) - 1))
       IN IF s[Len(s)] \in Range(rest) THEN rest ELSE Append(rest, s[Len(s)])

\* frame['experiment_container_id']
EcColumn(frame) == [i \in 1..Len(frame) |-> frame[i].experiment_container_id]

\* s[:k] for k >= 0
Slice(s, k) == SubSeq(s, 1, Min(k, Len(s)))

\* s[:stop:step] for stop, step > 0
StepSlice(s, stop, step) ==
  LET n == Min(stop, Len(s))
  IN [j \in 1..((n + step - 1) \div step) |-> s[(j - 1) * step + 1]]

\* time stamps and one trace of n samples
TimeStamps(n) == [i \in 1..n |-> i]
Trace(n) == [i \in 1..n |-> 0]

\* compute_dff(np.array(traces)): an array of the shape of its argument
compute_dff(traces) == traces

\* ------------------------------------------------------------ the state
VARIABLES
  containers,   \* the catalogue: experiment container records
  experiments,  \* the catalogue: ophys experiment records
  specimens,    \* the catalogue: cell specimen records
  plan,         \* the code cells to run, in order
  pc,           \* the position in plan of the next cell to run
  err,          \* "none", or the exception that stopped the run
  ns,           \* the kernel namespace: the notebook's variables
  requests,     \* the ids passed to boc.get_ophys_experiment_data, in order
  nwb_ids,      \* experiment id -> the cell specimen ids its NWB file lists
  plots         \* the plt.plot calls made: title, x, y

vars == <<containers, experiments, specimens, plan, pc, err, ns, requests, nwb_ids, plots>>

catalogue == <<containers, experiments, specimens>>

\* A name not bound to a record yet.
None == [none |-> TRUE]

\* The code cells, numbered by their position in the notebook (from 0).
FullPlan ==
  <<"cell2", "cell3", "cell7", "cell9", "cell11", "cell13", "cell15", "cell17",
    "cell19", "cell21", "cell22", "cell24", "cell26", "cell27", "cell29",
    "cell31", "cell33", "cell36", "cell38">>

\* The cells of the cell-filtering chain and the ones they need.
FilterPlan == <<"cell2", "cell3", "cell15">>

\* The filtering chain and the experiment lookup that follows it.
ExpsPlan == <<"cell2", "cell3", "cell15", "cell17">>

EmptyNamespace ==
  [boc |-> "", targeted_structures |-> {},
   visp_ecs |-> <<>>, cux2_ecs |-> <<>>, cux2_ec_id |-> 0, exps |-> <<>>,
   exp |-> None, cells |-> <<>>, visp_ec_ids |-> <<>>, visp_cells |-> <<>>,
   sig_cells |-> <<>>, dsi_cells |-> <<>>, dsi_ec_ids |-> <<>>,
   dsi_exps |-> <<>>, dsi_cell |-> None, cell_exp |-> None, data_set |-> 0,
   dsi_cell_id |-> 0, time |-> <<>>, raw_traces |-> <<>>,
   neuropil_traces |-> <<>>, corrected_traces |-> <<>>, dff_traces |-> <<>>,
   cids |-> <<>>, dg |-> None, vis_cells |-> <<>>, osi_cells |-> <<>>,
   csid |-> 0, dff |-> <<>>]

InitWith(p, cs, es, ss) ==
  /\ containers \in cs
  /\ experiments \in es
  /\ specimens \in ss
  /\ plan = p
  /\ pc = 1
  /\ err = "none"
  /\ ns = EmptyNamespace
  /\ requests = <<>>
  /\ nwb_ids = <<>>
  /\ plots = <<>>

\* The whole notebook, top to bottom.
Init ==
  InitWith(FullPlan, ContainerTables(Structures, CreLines), ExperimentTables,
           SpecimenTables(PValues, DsiValues))

\* Cell k is the next to run.
At(k) == err = "none" /\ pc <= Len(plan) /\ plan[pc] = k

\* Cell k has run to its end.
Done(k) == \E i \in 1..(pc - 1) : plan[i] = k

\* A cell ends: its bindings stand, and an exception stops the run at it.
Finish(ns2, e) ==
  /\ ns' = ns2
  /\ err' = e
  /\ pc' = IF e = "none" THEN pc + 1 ELSE pc

\* seq[0]
IndexError(seq) == IF seq = <<>> THEN "IndexError" ELSE "none"

\* plt.plot(x, y) raises when x and y differ in length
PlotError(x, y) == IF Len(x) = Len(y) THEN "none" ELSE "ValueError"

PlotCall(title, x, y) == [title |-> title, x |-> x, y |-> y]

\* --------------------------------------------------------- the code cells
\* boc = BrainObservatoryCache(manifest_file='boc/manifest.json')
\* targeted_structures = boc.get_all_targeted_structures()
Cell2 ==
  /\ At("cell2")
  /\ Finish([ns EXCEPT !.boc = "boc/manifest.json",
                       !.targeted_structures = get_all_targeted_structures(containers)],
            "none")
  /\ UNCHANGED <<catalogue, plan, requests, nwb_ids, plots>>

\* visp_ecs = boc.get_experiment_containers(targeted_structures=['VISp'])
Cell3 ==
  /\ At("cell3")
  /\ Finish([ns EXCEPT !.visp_ecs =
                get_experiment_containers(containers, {"VISp"}, CreLines)],
            "none")
  /\ UNCHANGED <<catalogue, plan, requests, nwb_ids, plots>>

\* cux2_ecs = boc.get_experiment_containers(cre_lines=['Cux2-CreERT2'])
\* pprint.pprint(cux2_ecs[0])
Cell7 ==
  /\ At("cell7")
  /\ LET ecs == get_experiment_containers(containers, Structures, {"Cux2-CreERT2"})
     IN Finish([ns EXCEPT !.cux2_ecs = ecs], IndexError(ecs))
  /\ UNCHANGED <<catalogue, plan, requests, nwb_ids, plots>>

\* cux2_ec_id = cux2_ecs[0]['id']
\* exps = boc.get_ophys_experiments(experiment_container_ids=[cux2_ec_id])
Cell9 ==
  /\ At("cell9")
  /\ IF ns.cux2_ecs = <<>>
     THEN Finish(ns, "IndexError")
     ELSE LET id == ns.cux2_ecs[1].id
          IN Finish([ns EXCEPT !.cux2_ec_id = id,
                               !.exps = get_ophys_experiments(experiments, <<id>>, AllStimuli)],
                    "none")
  /\ UNCHANGED <<catalogue, plan, requests, nwb_ids, plots>>

\* cux2_ec_id = cux2_ecs[0]['id']
\* exp = boc.get_ophys_experiments(experiment_container_ids=[cux2_ec_id],
\*                                 stimuli=[stim_info.STATIC_GRATINGS])[0]
Cell11 ==
  /\ At("cell11")
  /\ IF ns.cux2_ecs = <<>>
     THEN Finish(ns, "IndexError")
     ELSE LET id == ns.cux2_ecs[1].id
              found == get_ophys_experiments(experiments, <<id>>, {STATIC_GRATINGS})
          IN IF found = <<>>
             THEN Finish([ns EXCEPT !.cux2_ec_id = id], "IndexError")
             ELSE Finish([ns EXCEPT !.cux2_ec_id = id, !.exp = found[1]], "none")
  /\ UNCHANGED <<catalogue, plan, requests, nwb_ids, plots>>

\* exp = boc.get_ophys_experiment_data(exp['id'])
Cell13 ==
  /\ At("cell13")
  /\ requests' = Append(requests, ns.exp.id)
  /\ Finish([ns EXCEPT !.exp = [nwb |-> ns.exp.id]], "none")
  /\ UNCHANGED <<catalogue, plan, nwb_ids, plots>>

\* cells = pd.DataFrame.from_records(boc.get_cell_specimens())
\* visp_ec_ids = [ ec['id'] for ec in visp_ecs ]
\* visp_cells = cells[cells['experiment_container_id'].isin(visp_ec_ids)]
\* sig_cells = visp_cells[visp_cells['p_dg'] < 0.05]
\* dsi_cells = sig_cells[(sig_cells['dsi_dg'] > 0.5) & (sig_cells['dsi_dg'] < 1.5)]
Cell15 ==
  /\ At("cell15")
  /\ LET cells == specimens
         visp_ec_ids == Ids(ns.visp_ecs)
         visp_cells == isin(cells, visp_ec_ids)
         sig_cells == SelectSeq(visp_cells, SigMask)
         dsi_cells == SelectSeq(sig_cells, DsiMask)
     IN Finish([ns EXCEPT !.cells = cells, !.visp_ec_ids = visp_ec_ids,
                          !.visp_cells = visp_cells, !.sig_cells = sig_cells,
                          !.dsi_cells = dsi_cells],
               "none")
  /\ UNCHANGED <<catalogue, plan, requests, nwb_ids, plots>>

\* dsi_ec_ids = dsi_cells['experiment_container_id'].unique()
\* dsi_exps = boc.get_ophys_experiments(experiment_container_ids=dsi_ec_ids,
\*                                      stimuli=[stim_info.DRIFTING_GRATINGS])
\* pprint.pprint(dsi_exps[0])
Cell17 ==
  /\ At("cell17")
  /\ LET dsi_ec_ids == unique(EcColumn(ns.dsi_cells))
         dsi_exps == get_ophys_experiments(experiments, dsi_ec_ids, {DRIFTING_GRATINGS})
     IN Finish([ns EXCEPT !.dsi_ec_ids = dsi_ec_ids, !.dsi_exps = dsi_exps],
               IndexError(dsi_exps))
  /\ UNCHANGED <<catalogue, plan, requests, nwb_ids, plots>>

\* dsi_cell = dsi_cells.iloc[0]
\* cell_exp = boc.get_ophys_experiments(
\*     experiment_container_ids=[dsi_cell['experiment_container_id']],
\*     stimuli=[stim_info.DRIFTING_GRATINGS])[0]
\* data_set = boc.get_ophys_experiment_data(cell_exp['id'])
Cell19 ==
  /\ At("cell19")
  /\ IF ns.dsi_cells = <<>>
     THEN Finish(ns, "IndexError") /\ UNCHANGED requests
     ELSE LET dsi_cell == ns.dsi_cells[1]
              found == get_ophys_experiments(experiments,
                         <<dsi_cell.experiment_container_id>>, {DRIFTING_GRATINGS})
          IN IF found = <<>>
             THEN Finish([ns EXCEPT !.dsi_cell = dsi_cell], "IndexError")
                  /\ UNCHANGED requests
             ELSE /\ Finish([ns EXCEPT !.dsi_cell = dsi_cell, !.cell_exp = found[1],
                                       !.data_set = found[1].id],
                            "none")
                  /\ requests' = Append(requests, found[1].id)
  /\ UNCHANGED <<catalogue, plan, nwb_ids, plots>>

\* The plot calls of a cell made up to and with the first that raises.
FirstBad(calls) ==
  LET bad == {i \in 1..Len(calls) : Len(calls[i].x) # Len(calls[i].y)}
  IN IF bad = {} THEN 0 ELSE CHOOSE i \in bad : \A j \in bad : i <= j

Plotted(calls) ==
  IF FirstBad(calls) = 0 THEN calls ELSE SubSeq(calls, 1, FirstBad(calls))

PlotsError(calls) == IF FirstBad(calls) = 0 THEN "none" ELSE "ValueError"

\* data_set.get_cell_specimen_ids() of experiment id: what the file listed
\* before, or any listing when it is read for the first time.
Listings(id) == IF id \in DOMAIN nwb_ids THEN {nwb_ids[id]} ELSE RoiIdLists

\* time, raw_traces = data_set.get_fluorescence_traces(cell_specimen_ids=[dsi_cell_id])
\* _, neuropil_traces = data_set.get_neuropil_traces(...)
\* _, corrected_traces = data_set.get_corrected_fluorescence_traces(...)
\* _, dff_traces = data_set.get_dff_traces(...)
\* (the dF/F trace is as long as the time stamps, or one element longer or shorter)
Cell21 ==
  /\ At("cell21")
  /\ \E d \in {-1, 0, 1} :
       Finish([ns EXCEPT !.dsi_cell_id = ns.dsi_cell.cell_specimen_id,
                         !.time = TimeStamps(TraceLen),
                         !.raw_traces = <<Trace(TraceLen)>>,
                         !.neuropil_traces = <<Trace(TraceLen)>>,
                         !.corrected_traces = <<Trace(TraceLen)>>,
                         !.dff_traces = <<Trace(TraceLen + d)>>],
              "none")
  /\ UNCHANGED <<catalogue, plan, requests, nwb_ids, plots>>

\* plt.plot(time, raw_traces[0])
\* plt.plot(time, corrected_traces[0])
\* plt.plot(time[:len(dff_traces[0])], dff_traces[0])
Cell22 ==
  /\ At("cell22")
  /\ LET calls ==
           <<PlotCall("Raw Fluorescence Trace", ns.time, ns.raw_traces[1]),
             PlotCall("Neuropil-corrected Fluorescence Trace", ns.time,
                      ns.corrected_traces[1]),
             PlotCall("dF/F Trace", Slice(ns.time, Len(ns.dff_traces[1])),
                      ns.dff_traces[1])>>
     IN /\ plots' = plots \o Plotted(calls)
        /\ Finish(ns, PlotsError(calls))
  /\ UNCHANGED <<catalogue, plan, requests, nwb_ids>>

\* data_set = boc.get_ophys_experiment_data(510221121)
\* cids = data_set.get_cell_specimen_ids()[:15:5]
\* (the masks and the max projection are drawn with imshow, not modelled)
Cell24 ==
  /\ At("cell24")
  /\ requests' = Append(requests, ROI_EXPERIMENT_ID)
  /\ \E ids \in Listings(ROI_EXPERIMENT_ID) :
       /\ nwb_ids' = (ROI_EXPERIMENT_ID :> ids) @@ nwb_ids
       /\ Finish([ns EXCEPT !.data_set = ROI_EXPERIMENT_ID,
                            !.cids = StepSlice(ids, 15, 5)],
                 "none")
  /\ UNCHANGED <<catalogue, plan, plots>>

\* data_set = boc.get_ophys_experiment_data(512326618)
\* dg = DriftingGratings(data_set)
Cell26 ==
  /\ At("cell26")
  /\ requests' = Append(requests, DG_EXPERIMENT_ID)
  /\ \E peak \in PeakTables :
       Finish([ns EXCEPT !.data_set = DG_EXPERIMENT_ID, !.dg = [peak |-> peak]],
              "none")
  /\ UNCHANGED <<catalogue, plan, nwb_ids, plots>>

\* vis_cells = (dg.peak.ptest_dg < 0.05) & (dg.peak.peak_dff_dg > 3)
\* osi_cells = vis_cells & (dg.peak.osi_dg > 0.5) & (dg.peak.osi_dg <= 1.5)
\* dsi_cells = vis_cells & (dg.peak.dsi_dg > 0.5) & (dg.peak.dsi_dg <= 1.5)
\* (the two histograms are drawn with imshow, not modelled)
Cell27 ==
  /\ At("cell27")
  /\ LET peak == ns.dg.peak
         vis_cells == [i \in 1..Len(peak) |->
                         peak[i].ptest_dg < P_SIG /\ peak[i].peak_dff_dg > PEAK_DFF_MIN]
         osi_cells == [i \in 1..Len(peak) |->
                         vis_cells[i] /\ peak[i].osi_dg > DSI_LO /\ peak[i].osi_dg <= DSI_HI]
         dsi_cells == [i \in 1..Len(peak) |->
                         vis_cells[i] /\ peak[i].dsi_dg > DSI_LO /\ peak[i].dsi_dg <= DSI_HI]
     IN Finish([ns EXCEPT !.vis_cells = vis_cells, !.osi_cells = osi_cells,
                          !.dsi_cells = dsi_cells],
               "none")
  /\ UNCHANGED <<catalogue, plan, requests, nwb_ids, plots>>

\* data_set = boc.get_ophys_experiment_data(510221121)
\* csid = data_set.get_cell_specimen_ids()[0]
\* time, raw_traces = data_set.get_fluorescence_traces(cell_specimen_ids=[csid])
\* _, neuropil_traces = data_set.get_neuropil_traces(cell_specimen_ids=[csid])
\* (the contamination ratio is a number read by no later cell, not modelled)
Cell29 ==
  /\ At("cell29")
  /\ requests' = Append(requests, ROI_EXPERIMENT_ID)
  /\ \E ids \in Listings(ROI_EXPERIMENT_ID) :
       /\ nwb_ids' = (ROI_EXPERIMENT_ID :> ids) @@ nwb_ids
       /\ IF ids = <<>>
          THEN Finish([ns EXCEPT !.data_set = ROI_EXPERIMENT_ID], "IndexError")
          ELSE Finish([ns EXCEPT !.data_set = ROI_EXPERIMENT_ID, !.csid = ids[1],
                                 !.time = TimeStamps(TraceLen),
                                 !.raw_traces = <<Trace(TraceLen)>>,
                                 !.neuropil_traces = <<Trace(TraceLen)>>],
                      "none")
  /\ UNCHANGED <<catalogue, plan, plots>>

\* _, corrected_traces = data_set.get_corrected_fluorescence_traces(cell_specimen_ids=[csid])
\* plt.plot(time, corrected_traces[0])
Cell31 ==
  /\ At("cell31")
  /\ LET corrected_traces == <<Trace(TraceLen)>>
         calls == <<PlotCall("Neuropil-corrected Fluorescence Trace", ns.time,
                             corrected_traces[1])>>
     IN /\ plots' = plots \o Plotted(calls)
        /\ Finish([ns EXCEPT !.corrected_traces = corrected_traces], PlotsError(calls))
  /\ UNCHANGED <<catalogue, plan, requests, nwb_ids>>

\* dff = compute_dff(np.array(corrected_traces))
\* plt.plot(time, dff[0,:])
Cell33 ==
  /\ At("cell33")
  /\ LET dff == compute_dff(ns.corrected_traces)
         calls == <<PlotCall("dF/F Trace", ns.time, dff[1])>>
     IN /\ plots' = plots \o Plotted(calls)
        /\ Finish([ns EXCEPT !.dff = dff], PlotsError(calls))
  /\ UNCHANGED <<catalogue, plan, requests, nwb_ids>>

\* data_set = boc.get_ophys_experiment_data(501940850)
\* dxcm, dxtime = data_set.get_running_speed()
\* plt.plot(dxtime, dxcm)
Cell36 ==
  /\ At("cell36")
  /\ requests' = Append(requests, RUNNING_EXPERIMENT_ID)
  /\ LET calls == <<PlotCall("", TimeStamps(TraceLen), Trace(TraceLen))>>
     IN /\ plots' = plots \o Plotted(calls)
        /\ Finish([ns EXCEPT !.data_set = RUNNING_EXPERIMENT_ID], PlotsError(calls))
  /\ UNCHANGED <<catalogue, plan, nwb_ids>>

\* data_set = boc.get_ophys_experiment_data(501940850)
\* mc = data_set.get_motion_correction()
\* plt.plot(mc.timestamp, mc.x_motion)
\* plt.plot(mc.timestamp, mc.y_motion)
Cell38 ==
  /\ At("cell38")
  /\ requests' = Append(requests, RUNNING_EXPERIMENT_ID)
  /\ LET calls == <<PlotCall("", TimeStamps(TraceLen), Trace(TraceLen)),
                    PlotCall("", TimeStamps(TraceLen), Trace(TraceLen))>>
     IN /\ plots' = plots \o Plotted(calls)
        /\ Finish([ns EXCEPT !.data_set = RUNNING_EXPERIMENT_ID], PlotsError(calls))
  /\ UNCHANGED <<catalogue, plan, nwb_ids>>

\* ------------------------------------------------------ the specifications
Next ==
  \/ Cell2 \/ Cell3 \/ Cell7 \/ Cell9 \/ Cell11 \/ Cell13 \/ Cell15 \/ Cell17
  \/ Cell19 \/ Cell21 \/ Cell22 \/ Cell24 \/ Cell26 \/ Cell27 \/ Cell29
  \/ Cell31 \/ Cell33 \/ Cell36 \/ Cell38

Spec == Init /\ [][Next]_vars

\* The filtering chain alone, over every table of cells the bounds allow.
InitFilter ==
  InitWith(FilterPlan, ContainerTables(Structures, {"Cux2-CreERT2"}), {<<>>},
           SpecimenTables(PValues, DsiValues))

NextFilter == Cell2 \/ Cell3 \/ Cell15

SpecFilter == InitFilter /\ [][NextFilter]_vars

\* The filtering chain and the experiment lookup, over every table of
\* experiments the bounds allow; every cell passes both metric thresholds,
\* so a cell is selected exactly when its container is a VISp one.
InitExps ==
  InitWith(ExpsPlan, ContainerTables(Structures, {"Cux2-CreERT2"}), ExperimentTables,
           SpecimenTables({4}, {10}))

NextExps == Cell2 \/ Cell3 \/ Cell15 \/ Cell17

SpecExps == InitExps /\ [][NextExps]_vars

\* ------------------------------------------------------------ the claims
\* The cell has just been run: to its end, or to the exception that stopped it.
Ran(k) ==
  \/ Done(k)
  \/ pc <= Len(plan) /\ plan[pc] = k /\ err # "none"

\* Cell k is the cell run last: to its end, or to the exception that stopped it.
JustRan(k) ==
  \/ err = "none" /\ pc > 1 /\ plan[pc - 1] = k
  \/ err # "none" /\ plan[pc] = k

\* dsi_cells still names the frame cell 15 bound (cell 27 rebinds it to a mask).
FilterRan == Done("cell15") /\ ~Done("cell27")

\* The ids of the containers get_experiment_containers(targeted_structures=['VISp']) returns.
VispContainerIds ==
  {c.id : c \in Range(get_experiment_containers(containers, {"VISp"}, CreLines))}

\* A direction-selective VISp cell, as the claim words it.
Selected(r) ==
  /\ r.experiment_container_id \in VispContainerIds
  /\ r.p_dg < 5
  /\ r.dsi_dg > 5
  /\ r.dsi_dg < 15

\* C4: in every run, every first-element indexing the notebook performs
\* (cux2_ecs[0], the two get_ophys_experiments(...)[0], dsi_exps[0],
\* dsi_cells.iloc[0], get_cell_specimen_ids()[0]) is applied to a non-empty
\* sequence, so that no cell stops with IndexError.
C4_IndexingValid == err # "IndexError"

\* C7: once cell 15 has run, a record of get_cell_specimens() is a row of
\* dsi_cells if and only if its container is one returned for VISp, its p_dg
\* is below 0.05 and its dsi_dg is strictly between 0.5 and 1.5; each selected
\* record is one row; dsi_cells, sig_cells, visp_cells and cells are nested,
\* and the printed counts do not increase along the chain.
C7_FilterChain ==
  FilterRan =>
    /\ \A r \in Range(specimens) : (r \in Range(ns.dsi_cells)) <=> Selected(r)
    /\ Len(ns.dsi_cells) = Cardinality({r \in Range(specimens) : Selected(r)})
    /\ Range(ns.dsi_cells) \subseteq Range(ns.sig_cells)
    /\ Range(ns.sig_cells) \subseteq Range(ns.visp_cells)
    /\ Range(ns.visp_cells) \subseteq Range(ns.cells)
    /\ Range(ns.cells) = Range(specimens)
    /\ Len(ns.dsi_cells) <= Len(ns.sig_cells)
    /\ Len(ns.sig_cells) <= Len(ns.visp_cells)
    /\ Len(ns.visp_cells) <= Len(ns.cells)

\* C7 witness: the chain has run on two significant VISp cells and kept one:
\* the other was dropped for its selectivity index.
C7_Witness ==
  /\ FilterRan
  /\ Len(ns.sig_cells) = 2
  /\ Len(ns.dsi_cells) = 1

\* C8: once cell 17 has bound dsi_ec_ids and dsi_exps, every experiment of
\* dsi_exps is a catalogue experiment showing drifting gratings whose
\* container is in dsi_ec_ids and is a VISp container; dsi_ec_ids holds the
\* container id of every dsi_cells row exactly once, holds nothing else, and
\* is within visp_ec_ids.
C8_DsiExperiments ==
  (Ran("cell17") /\ FilterRan) =>
    /\ \A e \in Range(ns.dsi_exps) :
         /\ e \in Range(experiments)
         /\ DRIFTING_GRATINGS \in StimuliOf(e.session_type)
         /\ e.experiment_container_id \in Range(ns.dsi_ec_ids)
         /\ \E c \in Range(containers) :
              c.id = e.experiment_container_id /\ c.targeted_structure = "VISp"
    /\ \A r \in Range(ns.dsi_cells) :
         Cardinality({i \in DOMAIN ns.dsi_ec_ids :
                        ns.dsi_ec_ids[i] = r.experiment_container_id}) = 1
    /\ \A i \in DOMAIN ns.dsi_ec_ids :
         \E r \in Range(ns.dsi_cells) : r.experiment_container_id = ns.dsi_ec_ids[i]
    /\ Range(ns.dsi_ec_ids) \subseteq Range(ns.visp_ec_ids)

\* C8 witness: two selected cells share one container, which dsi_ec_ids holds
\* once; the lookup returned an experiment and left another out.
C8_Witness ==
  /\ Done("cell17")
  /\ Len(ns.dsi_cells) = 2
  /\ Len(ns.dsi_ec_ids) = 1
  /\ ns.dsi_exps # <<>>
  /\ Len(ns.dsi_exps) < Len(experiments)

\* C9: when the dF/F trace is one element longer or one element shorter than
\* the time stamps, the dF/F plot of cell 22 is called with an x and a y of
\* equal length; likewise the plot of the recomputed dF/F in cell 33.
C9_DffPlotLengths ==
  /\ (JustRan("cell22") /\ Len(ns.dff_traces[1]) - Len(ns.time) \in {-1, 1})
       => /\ plots[Len(plots)].title = "dF/F Trace"
          /\ Len(plots[Len(plots)].x) = Len(plots[Len(plots)].y)
  /\ JustRan("cell33")
       => /\ plots[Len(plots)].title = "dF/F Trace"
          /\ Len(plots[Len(plots)].x) = Len(plots[Len(plots)].y)

====
